---- MODULE Spec2Model ----
(***************************************************************************)
(* The hdmx (Horizontal Device Metrics) table sanitizer of src/src/hdmx.cc:*)
(* OpenTypeHDMX::Parse / ShouldSerialize / Serialize and the C entry       *)
(* points ots_hdmx_parse / should_serialise / serialise / reuse / free.    *)
(*                                                                         *)
(* Two specifications share the variables:                                 *)
(*   Spec       two Fonts, any interleaving of the five entry points over  *)
(*              a handful of table byte strings (ownership, eligibility);  *)
(*   SpecParse  one Font, one table byte string drawn from Inputs, parsed, *)
(*              serialised and parsed again (the codec itself).            *)
(***************************************************************************)
EXTENDS Integers, Sequences, FiniteSets, TLC

\* ------------------------------------------------------------ bounds
MaxGlyphs  == 2      \* largest maxp.num_glyphs drawn
MaxNumRecs == 2      \* largest record count drawn for a header or a body
MaxInst    == 2      \* number of `new OpenTypeHDMX` the lifecycle model allows

\* ------------------------------------------------------------ constants
NULL          == 0           \* the null hdmx pointer of a Font
HintFlagsMask == 20          \* 0x14, hdmx.cc:21
MaxPadLen     == 3           \* hdmx.cc:45
Int16Max      == 32767       \* std::numeric_limits<int16_t>::max(), hdmx.cc:92
PadLenModulus == 256         \* width of the pad_len field (u8 in the data model)
Unlimited     == 100000      \* capacity of a writer that never fails

Fonts == {"A", "B"}

RECURSIVE BitAnd(_, _)
BitAnd(a, b) ==
  IF a = 0 \/ b = 0 THEN 0
  ELSE (a % 2) * (b % 2) + 2 * BitAnd(a \div 2, b \div 2)

\* ------------------------------------------------------------ Buffer
\* Bounds-checked big-endian reads over (data, offset): a failed read leaves
\* the offset where it was.
ToS16(u) == IF u >= 32768 THEN u - 65536 ELSE u

ReadU8(d, o) ==
  IF o + 1 <= Len(d) THEN [ok |-> TRUE, v |-> d[o + 1], o |-> o + 1]
  ELSE [ok |-> FALSE, v |-> 0, o |-> o]

ReadU16(d, o) ==
  IF o + 2 <= Len(d) THEN [ok |-> TRUE, v |-> d[o + 1] * 256 + d[o + 2], o |-> o + 2]
  ELSE [ok |-> FALSE, v |-> 0, o |-> o]

ReadS16(d, o) ==
  IF o + 2 <= Len(d)
  THEN [ok |-> TRUE, v |-> ToS16(d[o + 1] * 256 + d[o + 2]), o |-> o + 2]
  ELSE [ok |-> FALSE, v |-> 0, o |-> o]

ReadS32(d, o) ==
  IF o + 4 <= Len(d)
  THEN LET hi == IF d[o + 1] >= 128 THEN d[o + 1] - 256 ELSE d[o + 1]
       IN [ok |-> TRUE,
           v  |-> hi * 16777216 + d[o + 2] * 65536 + d[o + 3] * 256 + d[o + 4],
           o  |-> o + 4]
  ELSE [ok |-> FALSE, v |-> 0, o |-> o]

Skip(d, o, n) ==
  IF o + n <= Len(d) THEN [ok |-> TRUE, o |-> o + n] ELSE [ok |-> FALSE, o |-> o]

\* ------------------------------------------------------------ OTSStream
\* Append-only writer with a capacity; a write that does not fit fails and
\* appends nothing.
Write(s, bytes) ==
  IF Len(s.buf) + Len(bytes) <= s.limit
  THEN [ok |-> TRUE, s |-> [s EXCEPT !.buf = s.buf \o bytes]]
  ELSE [ok |-> FALSE, s |-> s]

U16Bytes(v) == << (v \div 256) % 256, v % 256 >>
S32Bytes(v) == << (v \div 16777216) % 256, (v \div 65536) % 256,
                  (v \div 256) % 256, v % 256 >>

WriteU16(s, v) == Write(s, U16Bytes(v))
WriteS16(s, v) == Write(s, U16Bytes((v + 65536) % 65536))
WriteS32(s, v) == Write(s, S32Bytes(v))

\* ------------------------------------------------------------ OpenTypeHDMX
\* A table object as constructed by `new OpenTypeHDMX(font)`: empty, bound to
\* the constructing Font, not yet parsed, not deleted.
NewTable(f) ==
  [font |-> f, parsed |-> FALSE, deletes |-> 0,
   version |-> 0, size_device_record |-> 0, pad_len |-> 0, records |-> << >>]

\* hdmx.cc:17
MissingPrerequisite(F) == ~F.head.present \/ ~F.maxp.present

\* hdmx.cc:21
HeadFlagsClear_inverted(flags) == BitAnd(flags, HintFlagsMask) = HintFlagsMask
HeadFlagsClear(flags) == BitAnd(flags, HintFlagsMask) = 0

\* hdmx.cc:33
BadVersion(version) == version # 0

\* hdmx.cc:36
BadNumRecs_off_by_one(num_recs) == num_recs < 0
BadNumRecs(num_recs) == num_recs <= 0

\* hdmx.cc:39
ActualSizeDeviceRecord(F) == F.maxp.num_glyphs + 2

\* hdmx.cc:44, the assignment into the pad_len field
PadLenField(diff) == diff % PadLenModulus

\* hdmx.cc:58-59
NotSorted_allows_equal(i, pixel_size, last_pixel_size) ==
  (i # 0) /\ (pixel_size < last_pixel_size)
NotSorted(i, pixel_size, last_pixel_size) ==
  (i # 0) /\ (pixel_size <= last_pixel_size)

\* hdmx.cc:64-71, the widths loop of one record, from glyph j on
RECURSIVE ReadWidths(_, _, _, _, _)
ReadWidths(d, o, j, num_glyphs, widths) ==
  IF j >= num_glyphs THEN [ok |-> TRUE, o |-> o, widths |-> widths]
  ELSE LET r == ReadU8(d, o)
       IN IF ~r.ok THEN [ok |-> FALSE, o |-> o, widths |-> widths]
          ELSE ReadWidths(d, r.o, j + 1, num_glyphs, Append(widths, r.v))

\* hdmx.cc:73-76
SkipPadding_unchecked(d, o, pad_len) ==
  [ok |-> TRUE, o |-> o + pad_len]
SkipPadding(d, o, pad_len) ==
  IF pad_len > 0 THEN Skip(d, o, pad_len) ELSE [ok |-> TRUE, o |-> o]

\* hdmx.cc:51-79, the record loop from record i on
RECURSIVE ParseRecords(_, _, _, _, _, _, _)
ParseRecords(F, this, d, o, i, num_recs, last_pixel_size) ==
  IF i >= num_recs THEN [outcome |-> "Success", this |-> this]
  ELSE
    LET p == ReadU8(d, o)
        m == ReadU8(d, p.o)
    IN IF ~p.ok \/ ~m.ok THEN [outcome |-> "Error", this |-> this]
       ELSE IF NotSorted(i, p.v, last_pixel_size)
       THEN [outcome |-> "Drop", this |-> this]
       ELSE
         LET w == ReadWidths(d, m.o, 0, F.maxp.num_glyphs, << >>)
         IN IF ~w.ok THEN [outcome |-> "Error", this |-> this]
            ELSE
              LET s == SkipPadding(d, w.o, this.pad_len)
              IN IF ~s.ok THEN [outcome |-> "Error", this |-> this]
                 ELSE
                   LET rec == [pixel_size |-> p.v, max_width |-> m.v,
                               widths |-> w.widths]
                   IN ParseRecords(F,
                        [this EXCEPT !.records = Append(this.records, rec)],
                        d, s.o, i + 1, num_recs, p.v)

\* hdmx.cc:14-82.  F is the Font the table is bound to (GetFont()), `this`
\* the table object, d the table's bytes.  The result carries the outcome
\* and the object as the call leaves it.
Parse(F, this, d) ==
  IF MissingPrerequisite(F) THEN [outcome |-> "Error", this |-> this]
  ELSE IF HeadFlagsClear(F.head.flags) THEN [outcome |-> "Drop", this |-> this]
  ELSE
    LET r1 == ReadU16(d, 0)
        t1 == IF r1.ok THEN [this EXCEPT !.version = r1.v] ELSE this
        r2 == ReadS16(d, r1.o)
        r3 == ReadS32(d, r2.o)
        t3 == IF r3.ok THEN [t1 EXCEPT !.size_device_record = r3.v] ELSE t1
    IN IF ~r1.ok THEN [outcome |-> "Error", this |-> this]
       ELSE IF ~r2.ok THEN [outcome |-> "Error", this |-> t1]
       ELSE IF ~r3.ok THEN [outcome |-> "Error", this |-> t1]
       ELSE IF BadVersion(t3.version) THEN [outcome |-> "Drop", this |-> t3]
       ELSE IF BadNumRecs(r2.v) THEN [outcome |-> "Drop", this |-> t3]
       ELSE IF t3.size_device_record < ActualSizeDeviceRecord(F)
       THEN [outcome |-> "Drop", this |-> t3]
       ELSE
         LET t4 == [t3 EXCEPT !.pad_len =
                      PadLenField(t3.size_device_record - ActualSizeDeviceRecord(F))]
         IN IF t4.pad_len > MaxPadLen THEN [outcome |-> "Error", this |-> t4]
            ELSE ParseRecords(F, t4, d, r3.o, 0, r2.v, 0)


\* hdmx.cc:106-109, the padding of one record: pad_len bytes of "\x00\x00\x00"
ZeroPadding(pad_len) == [k \in 1..pad_len |-> 0]

\* hdmx.cc:100-109, one iteration of the record loop of Serialize
SerializeRecord_no_padding(s, rec, pad_len) ==
  LET w1 == Write(s, << rec.pixel_size >>)
      w2 == Write(w1.s, << rec.max_width >>)
      w3 == Write(w2.s, rec.widths)
  IN IF ~w1.ok THEN [ok |-> FALSE, s |-> w1.s]
     ELSE IF ~w2.ok THEN [ok |-> FALSE, s |-> w2.s]
     ELSE [ok |-> w3.ok, s |-> w3.s]
SerializeRecord(s, rec, pad_len) ==
  LET w1 == Write(s, << rec.pixel_size >>)
      w2 == Write(w1.s, << rec.max_width >>)
      w3 == Write(w2.s, rec.widths)
      w4 == Write(w3.s, ZeroPadding(pad_len))
  IN IF ~w1.ok THEN [ok |-> FALSE, s |-> w1.s]
     ELSE IF ~w2.ok THEN [ok |-> FALSE, s |-> w2.s]
     ELSE IF ~w3.ok THEN [ok |-> FALSE, s |-> w3.s]
     ELSE IF pad_len > 0 /\ ~w4.ok THEN [ok |-> FALSE, s |-> w4.s]
     ELSE IF pad_len > 0 THEN [ok |-> TRUE, s |-> w4.s]
     ELSE [ok |-> TRUE, s |-> w3.s]

\* hdmx.cc:99-110, the record loop of Serialize from record i (1-based here)
RECURSIVE SerializeRecords(_, _, _, _)
SerializeRecords(s, this, i, num_recs) ==
  IF i > num_recs THEN [ret |-> TRUE, s |-> s]
  ELSE LET w == SerializeRecord(s, this.records[i], this.pad_len)
       IN IF ~w.ok THEN [ret |-> FALSE, s |-> w.s]
          ELSE SerializeRecords(w.s, this, i + 1, num_recs)

\* hdmx.cc:89-113
Serialize(this, s) ==
  LET num_recs == ToS16(Len(this.records) % 65536)
      w1 == WriteU16(s, this.version)
      w2 == WriteS16(w1.s, num_recs)
      w3 == WriteS32(w2.s, this.size_device_record)
  IN IF Len(this.records) > Int16Max THEN [ret |-> FALSE, s |-> s]
     ELSE IF ~w1.ok THEN [ret |-> FALSE, s |-> w1.s]
     ELSE IF ~w2.ok THEN [ret |-> FALSE, s |-> w2.s]
     ELSE IF ~w3.ok THEN [ret |-> FALSE, s |-> w3.s]
     ELSE SerializeRecords(w3.s, this, 1, num_recs)

\* ------------------------------------------------------------ state
VARIABLES
  font,      \* Font -> its head, maxp, glyf, hdmx pointer and hdmx_reused flag
  heap,      \* the OpenTypeHDMX objects allocated so far, by address 1..Len
  released,  \* Font -> ots_hdmx_free has been called for it
  last,      \* the last entry point called, its arguments and its result
  input,     \* SpecParse: the table bytes handed to the first parse
  pc         \* SpecParse: position in parse / serialise / parse again

vars == << font, heap, released, last, input, pc >>

NoCall ==
  [op |-> "none", font |-> "A", data |-> << >>, outcome |-> "none",
   ret |-> FALSE, out |-> << >>, limit |-> 0]

\* Table::GetFont(): the Font the object at address h was constructed with.
GetFont(h) == font[heap[h].font]

\* Table::ShouldSerialize(), the default eligibility: parsed successfully.
TableShouldSerialize(h) == heap[h].parsed

\* hdmx.cc:84-87, on the live object at address h
ShouldSerialize(h) == TableShouldSerialize(h) /\ GetFont(h).glyf

\* What ots_hdmx_should_serialise(f) can return (hdmx.cc:120-122): reading a
\* deleted object is undefined, so either answer is possible there.
ShouldSerialiseResults(f) ==
  LET h == font[f].hdmx
  IN IF h = NULL THEN {FALSE}
     ELSE IF heap[h].deletes > 0 THEN BOOLEAN
     ELSE {ShouldSerialize(h)}

\* ------------------------------------------------------------ entry points
\* hdmx.cc:115-118
ots_hdmx_parse(f, d) ==
  /\ ~released[f]
  /\ Len(heap) < MaxInst
  /\ LET h == Len(heap) + 1
         r == Parse(font[f], NewTable(f), d)
     IN /\ heap' = Append(heap, [r.this EXCEPT !.parsed = (r.outcome = "Success")])
        /\ font' = [font EXCEPT ![f].hdmx = h]
        /\ last' = [NoCall EXCEPT !.op = "parse", !.font = f, !.data = d,
                                  !.outcome = r.outcome,
                                  !.ret = (r.outcome = "Success")]
  /\ UNCHANGED released

\* hdmx.cc:120-122
ots_hdmx_should_serialise(f) ==
  /\ ~released[f]
  /\ \E b \in ShouldSerialiseResults(f) :
       last' = [NoCall EXCEPT !.op = "should_serialise", !.font = f, !.ret = b]
  /\ UNCHANGED << font, heap, released >>

\* hdmx.cc:124-126, into a writer of capacity limit
ots_hdmx_serialise(f, limit) ==
  /\ ~released[f]
  /\ font[f].hdmx # NULL
  /\ LET h == font[f].hdmx
         r == Serialize(heap[h], [buf |-> << >>, limit |-> limit])
     IN IF heap[h].deletes > 0
        THEN last' = [NoCall EXCEPT !.op = "serialise", !.font = f,
                                    !.outcome = "Undefined", !.limit = limit]
        ELSE last' = [NoCall EXCEPT !.op = "serialise", !.font = f,
                                    !.outcome = IF r.ret THEN "Success" ELSE "Error",
                                    !.ret = r.ret, !.out = r.s.buf,
                                    !.limit = limit]
  /\ UNCHANGED << font, heap, released >>

\* hdmx.cc:128-131
ots_hdmx_reuse(f, other) ==
  /\ f # other
  /\ ~released[f] /\ ~released[other]
  /\ font' = [font EXCEPT ![f].hdmx = font[other].hdmx, ![f].hdmx_reused = TRUE]
  /\ last' = [NoCall EXCEPT !.op = "reuse", !.font = f]
  /\ UNCHANGED << heap, released >>

\* hdmx.cc:133-135: delete font->hdmx, whatever hdmx_reused says
ots_hdmx_free(f) ==
  /\ ~released[f]
  /\ LET h == font[f].hdmx
     IN heap' = IF h = NULL THEN heap
                ELSE [heap EXCEPT ![h].deletes = heap[h].deletes + 1]
  /\ released' = [released EXCEPT ![f] = TRUE]
  /\ last' = [NoCall EXCEPT !.op = "free", !.font = f]
  /\ UNCHANGED font


\* ------------------------------------------------------------ inputs
\* Font prerequisites as the head, maxp and glyf parsers leave them.  maxp
\* supplies at least one glyph.
FontOf(hp, flags, mp, n, g) ==
  [head |-> [present |-> hp, flags |-> flags],
   maxp |-> [present |-> mp, num_glyphs |-> n],
   glyf |-> g, hdmx |-> NULL, hdmx_reused |-> FALSE]

FlagVals == {0, 4, 20}

\* Table byte strings: a header (version, numRecords, sizeDeviceRecord) in
\* front of k records laid out with some stride.  The stride of the body is
\* chosen independently of the header's sizeDeviceRecord, so bodies can be
\* too short, exact, or followed by trailing bytes.  Bytes other than
\* pixelSize are distinct and non-zero, so a lost, moved or copied byte shows.
PixelVals == {0, 10, 12}

RecordBytes(i, px, stride) ==
  << px >> \o [j \in 1..(stride - 1) |-> 20 + 16 * i + j]

RECURSIVE BodyBytes(_, _, _)
BodyBytes(pxs, i, stride) ==
  IF i > Len(pxs) THEN << >>
  ELSE RecordBytes(i, pxs[i], stride) \o BodyBytes(pxs, i + 1, stride)

Strides == 3..(MaxGlyphs + 2 + MaxPadLen)

\* sizeDeviceRecord values: below, at and above numGlyphs + 2 for every glyph
\* count drawn, and one whose surplus over 1 + 2 is a multiple of 256.
SizeVals == (2..(MaxGlyphs + 2 + MaxPadLen + 1)) \cup {3 + PadLenModulus}

HeaderBytes(v, n, sz) ==
  U16Bytes(v) \o U16Bytes((n + 65536) % 65536) \o S32Bytes(sz)

\* Tables whose header passes the version and numRecords checks, with as many
\* records in the body as the header announces.
CountedInputs ==
  UNION { { HeaderBytes(0, n, sz) \o BodyBytes(pxs, 1, st) :
              sz \in SizeVals, st \in Strides, pxs \in [1..n -> PixelVals] } :
          n \in 1..MaxNumRecs }

\* Tables with a bad version, a non-positive numRecords or a negative
\* sizeDeviceRecord, in front of one record.
BadHeaders ==
  { HeaderBytes(1, 1, 3), HeaderBytes(0, 0, 3), HeaderBytes(0, -1, 3),
    HeaderBytes(0, 1, -1), HeaderBytes(1, 0, 2) }

BadHeaderInputs ==
  { h \o BodyBytes(<< px >>, 1, st) :
      h \in BadHeaders, px \in PixelVals, st \in Strides }

FullInputs == CountedInputs \cup BadHeaderInputs

Truncations(x) ==
  { x, SubSeq(x, 1, Len(x) - 1), SubSeq(x, 1, 7), << >> }

Inputs == UNION { Truncations(x) : x \in FullInputs }

\* The byte strings of the lifecycle model: a valid one-record table for one
\* glyph, an unsorted two-record one, and a truncated one.
ValidTable     == HeaderBytes(0, 1, 3) \o << 12, 10, 9 >>
UnsortedTable  == HeaderBytes(0, 2, 3) \o << 12, 10, 9, 10, 10, 9 >>
TruncatedTable == HeaderBytes(0, 1, 3) \o << 12, 10 >>
LifecycleInputs == { ValidTable, UnsortedTable, TruncatedTable }

WriterLimits == { 0, 9, Unlimited }

OutlineFont == FontOf(TRUE, 20, TRUE, 1, TRUE)
CffFont     == FontOf(TRUE, 20, TRUE, 1, FALSE)
NoHeadFont  == FontOf(FALSE, 0, TRUE, 1, TRUE)
LifecycleFonts == { OutlineFont, CffFont, NoHeadFont }

\* ------------------------------------------------------------ Spec
Init ==
  /\ font \in [Fonts -> LifecycleFonts]
  /\ heap = << >>
  /\ released = [f \in Fonts |-> FALSE]
  /\ last = NoCall
  /\ input = << >>
  /\ pc = "lifecycle"

ParseCall ==
  \E f \in Fonts, d \in LifecycleInputs :
    ots_hdmx_parse(f, d) /\ UNCHANGED << input, pc >>

ShouldSerialiseCall ==
  \E f \in Fonts : ots_hdmx_should_serialise(f) /\ UNCHANGED << input, pc >>

\* The driver serialises a table only after ShouldSerialize answered true.
SerialiseCall ==
  \E f \in Fonts, limit \in WriterLimits :
    /\ TRUE \in ShouldSerialiseResults(f)
    /\ ots_hdmx_serialise(f, limit)
    /\ UNCHANGED << input, pc >>

ReuseCall ==
  \E f \in Fonts, other \in Fonts :
    ots_hdmx_reuse(f, other) /\ UNCHANGED << input, pc >>

FreeCall ==
  \E f \in Fonts : ots_hdmx_free(f) /\ UNCHANGED << input, pc >>

Next == ParseCall \/ ShouldSerialiseCall \/ SerialiseCall \/ ReuseCall \/ FreeCall

Spec == Init /\ [][Next]_vars

\* ------------------------------------------------------------ SpecParse
InitParse ==
  /\ \E flags \in FlagVals, n \in 1..MaxGlyphs, g \in BOOLEAN :
       font = [f \in Fonts |-> FontOf(TRUE, flags, TRUE, n, g)]
  /\ heap = << >>
  /\ released = [f \in Fonts |-> FALSE]
  /\ last = NoCall
  /\ input \in Inputs
  /\ pc = "start"

ParseInput ==
  /\ pc = "start"
  /\ ots_hdmx_parse("A", input)
  /\ pc' = "parsed"
  /\ UNCHANGED input

SerialiseParsed ==
  /\ pc = "parsed"
  /\ heap[font["A"].hdmx].parsed
  /\ \E limit \in WriterLimits : ots_hdmx_serialise("A", limit)
  /\ pc' = "serialised"
  /\ UNCHANGED input

ParseOutput ==
  /\ pc = "serialised"
  /\ last.ret
  /\ ots_hdmx_parse("A", last.out)
  /\ pc' = "reparsed"
  /\ UNCHANGED input

NextParse == ParseInput \/ SerialiseParsed \/ ParseOutput

SpecParse == InitParse /\ [][NextParse]_vars


\* ------------------------------------------------------------ claims
\* Shorthands for the formulas below.
CalledFont  == font[last.font]
CalledTable == heap[font[last.font].hdmx]
ParseCalled == last.op = "parse" /\ CalledFont.head.present /\ CalledFont.maxp.present
GatePassed  == ParseCalled /\ BitAnd(CalledFont.head.flags, HintFlagsMask) # 0
HdrVersion(d) == ReadU16(d, 0).v
HdrNumRecs(d) == ReadS16(d, 2).v
HdrSize(d)    == ReadS32(d, 4).v
NumGlyphs     == CalledFont.maxp.num_glyphs
Untouched(t)  ==
  t.version = 0 /\ t.size_device_record = 0 /\ t.pad_len = 0 /\ t.records = << >>

C2_SharedInstanceSafe ==
  \A h \in 1..Len(heap) :
    /\ heap[h].deletes <= 1
    /\ \A f \in Fonts :
         (~released[f] /\ font[f].hdmx = h) => heap[h].deletes = 0

\* C3: after a Parse that ended in Drop or Error the Font has no hdmx table or
\* the table holds nothing decoded from the input (version, size_device_record,
\* pad_len and records are as constructed).
C3_NoPartialState ==
  (last.op = "parse" /\ last.outcome # "Success")
    => (font[last.font].hdmx = NULL \/ Untouched(CalledTable))

\* C4: a table that parsed serialises into a writer that never fails, and the
\* serialised bytes parse again, under the same head and maxp, to the same
\* version, size_device_record, pad_len and records.
C4_RoundTrip ==
  /\ (pc = "serialised" /\ last.limit = Unlimited) => last.ret
  /\ pc = "reparsed" =>
       /\ last.outcome = "Success"
       /\ heap[2].version = heap[1].version
       /\ heap[2].size_device_record = heap[1].size_device_record
       /\ heap[2].pad_len = heap[1].pad_len
       /\ heap[2].records = heap[1].records

C4_Witness ==
  /\ pc = "reparsed"
  /\ Len(heap[1].records) = 2
  /\ heap[1].pad_len > 0
  /\ heap[2].records = heap[1].records
  /\ last.data # input

\* C5: once the header checks passed (size_device_record >= num_glyphs + 2), a
\* surplus above 3 makes Parse return Error, and otherwise the stored pad_len
\* is exactly the surplus, in 0..3.
C5_PadLenExact ==
  (/\ pc = "parsed" /\ GatePassed /\ Len(input) >= 8
   /\ HdrVersion(input) = 0 /\ HdrNumRecs(input) > 0
   /\ HdrSize(input) >= NumGlyphs + 2)
    => IF HdrSize(input) - (NumGlyphs + 2) > MaxPadLen
       THEN last.outcome = "Error"
       ELSE /\ CalledTable.pad_len = HdrSize(input) - (NumGlyphs + 2)
            /\ CalledTable.pad_len \in 0..MaxPadLen

\* C6: a parsed table's records are strictly increasing by pixel_size and as
\* many as the header's num_recs, which is in 1..32767; a complete, otherwise
\* valid input with a record whose pixel_size is not above its predecessor's
\* ends with Drop.
C6_SortedRecords ==
  /\ (last.op = "parse" /\ last.outcome = "Success") =>
       /\ Len(CalledTable.records) = HdrNumRecs(last.data)
       /\ Len(CalledTable.records) \in 1..Int16Max
       /\ \A i \in 2..Len(CalledTable.records) :
            CalledTable.records[i].pixel_size > CalledTable.records[i - 1].pixel_size
  /\ (/\ GatePassed /\ Len(last.data) >= 8
      /\ HdrVersion(last.data) = 0 /\ HdrNumRecs(last.data) > 0
      /\ HdrSize(last.data) - (NumGlyphs + 2) \in 0..MaxPadLen
      /\ Len(last.data) >= 8 + HdrNumRecs(last.data) * HdrSize(last.data)
      /\ \E i \in 1..(HdrNumRecs(last.data) - 1) :
           last.data[9 + i * HdrSize(last.data)]
             <= last.data[9 + (i - 1) * HdrSize(last.data)])
       => last.outcome = "Drop"

C6_Witness ==
  /\ pc = "parsed" /\ last.outcome = "Success"
  /\ Len(CalledTable.records) = 2
  /\ CalledTable.records[1].pixel_size = 0
  /\ CalledTable.records[2].pixel_size > 0

\* The number of bytes a successful Parse has read from the input.
Consumed == 8 + Len(CalledTable.records) * (NumGlyphs + 2 + CalledTable.pad_len)

PrefixOutcome(n) == Parse(CalledFont, NewTable(last.font), SubSeq(input, 1, n)).outcome

\* C7 as stated: every proper prefix of an accepted input ends with Error.
C7_EveryPrefixErrors ==
  (pc = "parsed" /\ last.outcome = "Success")
    => \A n \in 0..(Len(input) - 1) : PrefixOutcome(n) = "Error"

\* C7 amended: every prefix of an accepted input that is shorter than the
\* 8 + num_recs * (num_glyphs + 2 + pad_len) bytes Parse read ends with Error.
C7_CutPrefixErrors ==
  (pc = "parsed" /\ last.outcome = "Success")
    => \A n \in 0..(Consumed - 1) : PrefixOutcome(n) = "Error"

C7_Witness ==
  /\ pc = "parsed" /\ last.outcome = "Success"
  /\ Len(CalledTable.records) = 2
  /\ CalledTable.pad_len = 2
  /\ Len(input) = Consumed
  /\ PrefixOutcome(Consumed - 1) = "Error"

\* C8: with the flags gate passed and the 8-byte header readable, a non-zero
\* version, a non-positive num_recs or a size_device_record below
\* num_glyphs + 2 ends with Drop, stores no record, and the table is not
\* eligible for emission.
C8_BadHeaderDrops ==
  (/\ GatePassed /\ Len(last.data) >= 8
   /\ \/ HdrVersion(last.data) # 0
      \/ HdrNumRecs(last.data) <= 0
      \/ HdrSize(last.data) < NumGlyphs + 2)
    => /\ last.outcome = "Drop"
       /\ CalledTable.records = << >>
       /\ ShouldSerialiseResults(last.font) = {FALSE}

C8_Witness ==
  /\ pc = "parsed" /\ GatePassed /\ CalledFont.glyf
  /\ Len(input) > 8
  /\ HdrVersion(input) = 0 /\ HdrNumRecs(input) = 0
  /\ HdrSize(input) >= NumGlyphs + 2
  /\ last.outcome = "Drop"

\* C9: ots_hdmx_should_serialise answers true only for a Font whose hdmx table
\* parsed successfully and that carries a glyf table.
C9_EligibleOnlyWithGlyf ==
  (last.op = "should_serialise" /\ last.ret)
    => /\ font[last.font].hdmx # NULL
       /\ CalledTable.parsed
       /\ CalledFont.glyf

\* The layout C10 describes, built from the table's fields.
RECURSIVE ExpectedRecords(_, _)
ExpectedRecords(t, i) ==
  IF i > Len(t.records) THEN << >>
  ELSE << t.records[i].pixel_size, t.records[i].max_width >>
       \o t.records[i].widths \o [k \in 1..t.pad_len |-> 0]
       \o ExpectedRecords(t, i + 1)

\* C10: Serialize of a parsed table into a writer that never fails succeeds
\* and writes version, the record count, size_device_record, then per record
\* pixel_size, max_width, the widths and pad_len zero bytes: exactly
\* 8 + count * size_device_record bytes.
C10_SerializedLayout ==
  (pc = "serialised" /\ last.limit = Unlimited)
    => /\ last.ret
       /\ last.out = HeaderBytes(CalledTable.version, Len(CalledTable.records),
                                 CalledTable.size_device_record)
                     \o ExpectedRecords(CalledTable, 1)
       /\ Len(last.out) = 8 + Len(CalledTable.records) * CalledTable.size_device_record

====
